---- MODULE Spec2Model ----
(***************************************************************************)
(* Model of option_master_ext/engine_ext.py: the HedgeEngine (auto-hedge   *)
(* flags, timer counters, balance-price search, hedge decision and sizing) *)
(* and the ChaseOrderEngine (order splitting, submission, cancel/resend).  *)
(*                                                                         *)
(* Numbers.  Volumes are integers.  Prices are integers in a fixed price   *)
(* unit; a balance price is kept doubled (last_price + price) so that the  *)
(* midpoint needs no fraction.  Percentages (offset_percent,               *)
(* hedge_percent) are integers in percent.  Python floats are modelled by  *)
(* exact arithmetic on these scaled integers.                              *)
(***************************************************************************)
EXTENDS Integers, Sequences, FiniteSets, TLC

(***************************************************************************)
(* Bounds of the model.                                                    *)
(***************************************************************************)
\* order ids the host hands out in one run
MaxOrders == 3
\* largest volume of one buy/sell/short/cover call
MaxVolume == 5
\* largest configured max_volume (child-order cap)
MaxCap == 2
\* split_req on its own: largest volume and largest max_volume
MaxSplitVolume == 64
MaxSplitCap == 31
\* largest configured pay_up
MaxPayUp == 1

(***************************************************************************)
(* Program constants.                                                      *)
(***************************************************************************)
\* ChaseOrderEngine.cancel_interval
cancel_interval == 3
\* HedgeEngine.check_delta_trigger and calc_balance_trigger
check_delta_trigger == 5
calc_balance_trigger == 300

Portfolios == {"p1"}

\* prices are counted in units of 0.01 and a balance price is kept doubled;
\* offset_percent and hedge_percent are counted in percent
ZeroPrice == 10000
Mids == {9940, 10000, 10015}
Ticks == {9400, 9500, 10000, 10500, 10600}
PosDeltas == {-16, -4}
ParamSets == [offset_percent : {5}, hedge_percent : {50, 100}]
MaxSteps == 2
MaxPosDelta == 1000
\* action_hedge on its own: largest position delta
MaxHedgeDelta == 40
CallDeltas == {2, 5}
PutDeltas == {-3}

View(mid, tick, pos_delta) ==
    [present |-> TRUE, symbol |-> "U", chain |-> "C", mid |-> mid,
     zero |-> ZeroPrice, tick |-> tick, pos_delta |-> pos_delta,
     call_delta |-> 5, put_delta |-> -3]

\* the portfolio is not among the active portfolios
AbsentView == [View(0, 0, 0) EXCEPT !.present = FALSE]

HostViews ==
    {View(m, t, d) : m \in Mids, t \in Ticks, d \in PosDeltas} \cup {AbsentView}

\* what the handlers that only search the balance price read
BalanceViews == {View(m, ZeroPrice, 0) : m \in Mids} \cup {AbsentView}

NoParams == [offset_percent |-> 0, hedge_percent |-> 0]
\* a call of the hedge engine: its arguments and what it returns (ret is
\* "void", "None", "True", "False" or "price", price the price returned)
NoCall == [pf |-> "none", params |-> NoParams, ret |-> "void", price |-> 0]

Symbols == {"call", "put"}

\* TickData of a symbol (best ask and best bid) and its ContractData
Quote(ask, bid) == [ask_price_1 |-> ask, bid_price_1 |-> bid]
Quotes == {Quote(101, 99), Quote(104, 100)}
RestingQuotes == [s \in Symbols |-> Quote(101, 99)]
Contracts == [s \in Symbols |-> [pricetick |-> 2]]
\* the symbols direct callers of buy/sell/short/cover trade
CallerSymbols == {"call"}

\* vnpy Status values; is_active() is true of the first two here
ActiveStatuses == {"NOTTRADED", "PARTTRADED"}
Statuses == ActiveStatuses \cup {"ALLTRADED", "CANCELLED", "REJECTED"}

VARIABLES
    \* HedgeEngine
    auto_hedge_flags,       \* dict: portfolio name -> bool
    hedge_parameters,       \* dict: portfolio name -> parameters
    balance_prices,         \* dict: portfolio name -> (doubled) balance price
    underlyings,            \* portfolio names whose underlying is cached
    underlying_symbols,     \* dict: portfolio name -> underlying symbol
    synthesis_chain_symbols,\* dict: portfolio name -> chain symbol
    auto_portfolio_names,   \* list of portfolio names
    counters,               \* check_delta and calculate_balance
    registered,             \* register_event was called
    search,                 \* the running loop of calculate_balance_price
    \* ChaseOrderEngine
    active_orderids,    \* set of order ids
    cancel_counts,      \* dict: order id -> ticks counted
    max_volume,         \* configured child-order cap
    pay_up,             \* configured price increments to pay up
    \* host (main engine): open orders by id, and the last id handed out
    orders,
    next_id,
    quotes,             \* the latest tick of each symbol
    \* history: what the last operation did, and per-order / per-trade accounts
    last,
    track,
    trades,
    watch,
    waiting,            \* hedge timer ticks an enabled portfolio waits for
    hist,               \* which history this run keeps
    \* the argument and the result of a function applied on its own
    fn

hedgeVars == <<auto_hedge_flags, hedge_parameters, balance_prices, underlyings,
               underlying_symbols, synthesis_chain_symbols,
               auto_portfolio_names, counters, registered, search>>
chaseVars == <<active_orderids, cancel_counts, max_volume, pay_up>>
hostVars == <<orders, next_id, quotes>>
histVars == <<last, track, trades, watch, waiting, hist>>
vars == <<hedgeVars, chaseVars, hostVars, histVars, fn>>

(***************************************************************************)
(* Helpers.                                                                *)
(***************************************************************************)
RECURSIVE SumSeq(_)
SumSeq(s) == IF s = <<>> THEN 0 ELSE Head(s) + SumSeq(Tail(s))

RECURSIVE SumSet(_, _)
\* sum of f[x] over x in S
SumSet(f, S) ==
    IF S = {} THEN 0
    ELSE LET x == CHOOSE y \in S : TRUE IN f[x] + SumSet(f, S \ {x})

Restrict(f, S) == [x \in S |-> f[x]]

(***************************************************************************)
(* The state the operations work on, passed through the calls one handler  *)
(* makes: the fields of the two engines the handlers write, the host's     *)
(* order book, and the outputs of the handler so far (send_order calls,    *)
(* requests submitted to the host, cancel requests, hedge-status events,   *)
(* log lines, hedge decisions, an escaped exception, the search loop the   *)
(* handler has entered).                                                   *)
(***************************************************************************)
NoSearch == [pf |-> "none"]

Engines ==
    [auto_hedge_flags |-> auto_hedge_flags,
     hedge_parameters |-> hedge_parameters,
     balance_prices   |-> balance_prices,
     underlyings      |-> underlyings,
     search           |-> NoSearch,
     active_orderids  |-> active_orderids,
     cancel_counts    |-> cancel_counts,
     orders           |-> orders,
     next_id          |-> next_id,
     calls            |-> <<>>,
     submitted        |-> <<>>,
     new_ids          |-> <<>>,
     cancels          |-> {},
     notified         |-> 0,
     logs             |-> <<>>,
     decisions        |-> <<>>,
     exc              |-> FALSE]

\* OrderData.is_active
is_active(order) == order.status \in ActiveStatuses

\* split_req losing the remainder child
split_req_no_remainder(req) ==
    IF req.volume <= max_volume THEN <<req>>
    ELSE [i \in 1..(req.volume \div max_volume) |->
             [req EXCEPT !.volume = max_volume]]

\* ChaseOrderEngine.split_req: the child requests of req
split_req(req) ==
    IF req.volume <= max_volume THEN <<req>>
    ELSE LET max_count == req.volume \div max_volume
             remainder == req.volume % max_volume
             req_max   == [req EXCEPT !.volume = max_volume]
             req_list  == [i \in 1..max_count |-> req_max]
         IN IF remainder # 0
            THEN Append(req_list, [req EXCEPT !.volume = remainder])
            ELSE req_list

\* ChaseOrderEngine.split_req: which object each child of the returned list
\* is: the caller's request itself, the one copy req_max (listed once per
\* full-size child), or the copy req_r
split_req_objects(req) ==
    IF req.volume <= max_volume THEN <<"req">>
    ELSE LET max_count == req.volume \div max_volume
             remainder == req.volume % max_volume
             req_list  == [i \in 1..max_count |-> "req_max"]
         IN IF remainder # 0
            THEN Append(req_list, "req_r")
            ELSE req_list

\* MainEngine.send_order: the host books the request under a fresh id
HostOrder(req) ==
    [symbol |-> req.symbol, direction |-> req.direction, offset |-> req.offset,
     price |-> req.price, volume |-> req.volume, traded |-> 0,
     status |-> "NOTTRADED"]

\* the price send_order takes when it is given none (None or 0)
aggressive_price(vt_symbol, direction) ==
    IF direction = "LONG"
    THEN quotes[vt_symbol].ask_price_1 + Contracts[vt_symbol].pricetick * pay_up
    ELSE quotes[vt_symbol].bid_price_1 - Contracts[vt_symbol].pricetick * pay_up

\* ChaseOrderEngine.send_order; price 0 stands for no price given
send_order(st, vt_symbol, direction, offset, volume, price) ==
    LET original_req == [symbol |-> vt_symbol, direction |-> direction,
                         offset |-> "NONE", type |-> "LIMIT", volume |-> volume,
                         price |-> IF price = 0
                                   THEN aggressive_price(vt_symbol, direction)
                                   ELSE price]
        splited_req_list == split_req(original_req)
        n == Len(splited_req_list)
        vt_orderids == [i \in 1..n |-> st.next_id + i]
        ids == {vt_orderids[i] : i \in 1..n}
    IN [st EXCEPT
          !.active_orderids = @ \cup ids,
          !.cancel_counts = [id \in DOMAIN @ \cup ids |->
                                IF id \in ids THEN 0 ELSE @[id]],
          !.orders = [id \in DOMAIN @ \cup ids |->
                         IF id \in ids
                         THEN HostOrder(splited_req_list[id - st.next_id])
                         ELSE @[id]],
          !.next_id = @ + n,
          !.calls = Append(@, [symbol |-> vt_symbol, direction |-> direction,
                               offset |-> offset, volume |-> volume,
                               price |-> price]),
          !.submitted = @ \o splited_req_list,
          !.new_ids = @ \o vt_orderids]

\* buy, sell, short and cover called with no price, as the hedge engine
\* calls them
buy(st, vt_symbol, volume) ==
    send_order(st, vt_symbol, "LONG", "OPEN", volume, 0)
sell(st, vt_symbol, volume) ==
    send_order(st, vt_symbol, "SHORT", "CLOSE", volume, 0)
short(st, vt_symbol, volume) ==
    send_order(st, vt_symbol, "SHORT", "OPEN", volume, 0)
cover(st, vt_symbol, volume) ==
    send_order(st, vt_symbol, "LONG", "CLOSE", volume, 0)

\* resend_order sending the whole volume again
resend_order_whole(st, order) ==
    send_order(st, order.symbol, order.direction, order.offset, order.volume, 0)

\* resend_order sending the remainder at the price of the cancelled order
resend_order_same_price(st, order) ==
    send_order(st, order.symbol, order.direction, order.offset,
               order.volume - order.traded, order.price)

\* ChaseOrderEngine.resend_order
resend_order(st, order) ==
    LET new_volume == order.volume - order.traded
    IN send_order(st, order.symbol, order.direction, order.offset, new_volume,
                  0)

\* process_order_event keeping the counter of an order it removes
process_order_event_keeps_count(st, order) ==
    IF order.vt_orderid \notin st.active_orderids THEN st
    ELSE LET st1 == IF ~is_active(order)
                    THEN [st EXCEPT
                            !.active_orderids = @ \ {order.vt_orderid}]
                    ELSE st
         IN IF order.status = "CANCELLED" THEN resend_order(st1, order) ELSE st1

\* process_order_event leaving a cancelled order in the active set
process_order_event_keeps_cancelled(st, order) ==
    IF order.vt_orderid \notin st.active_orderids THEN st
    ELSE IF order.status = "CANCELLED" THEN resend_order(st, order)
    ELSE IF ~is_active(order)
    THEN [st EXCEPT
            !.active_orderids = @ \ {order.vt_orderid},
            !.cancel_counts = Restrict(@, DOMAIN @ \ {order.vt_orderid})]
    ELSE st

\* process_order_event resending every order that is no longer active
process_order_event_resends_closed(st, order) ==
    IF order.vt_orderid \notin st.active_orderids THEN st
    ELSE IF is_active(order) THEN st
    ELSE resend_order([st EXCEPT
                          !.active_orderids = @ \ {order.vt_orderid},
                          !.cancel_counts =
                              Restrict(@, DOMAIN @ \ {order.vt_orderid})],
                      order)

\* process_order_event restarting the cancel counter on an update of a
\* working order
process_order_event_restarts_count(st, order) ==
    IF order.vt_orderid \notin st.active_orderids THEN st
    ELSE LET st1 == IF ~is_active(order)
                    THEN [st EXCEPT
                            !.active_orderids = @ \ {order.vt_orderid},
                            !.cancel_counts =
                                Restrict(@, DOMAIN @ \ {order.vt_orderid})]
                    ELSE [st EXCEPT !.cancel_counts[order.vt_orderid] = 0]
         IN IF order.status = "CANCELLED" THEN resend_order(st1, order) ELSE st1

\* process_order_event without the test that the order is tracked
process_order_event_any_id(st, order) ==
    LET st1 == IF ~is_active(order)
               THEN [st EXCEPT
                       !.active_orderids = @ \ {order.vt_orderid},
                       !.cancel_counts =
                           Restrict(@, DOMAIN @ \ {order.vt_orderid})]
               ELSE st
    IN IF order.status = "CANCELLED" THEN resend_order(st1, order) ELSE st1

\* ChaseOrderEngine.process_order_event
process_order_event(st, order) ==
    IF order.vt_orderid \notin st.active_orderids THEN st
    ELSE LET st1 == IF ~is_active(order)
                    THEN [st EXCEPT
                            !.active_orderids = @ \ {order.vt_orderid},
                            !.cancel_counts =
                                Restrict(@, DOMAIN @ \ {order.vt_orderid})]
                    ELSE st
         IN IF order.status = "CANCELLED" THEN resend_order(st1, order) ELSE st1

\* the loop body of check_cancel skipping the increment after a reset
check_cancel_count_else(count) ==
    IF count > cancel_interval THEN 0 ELSE count + 1

\* one iteration of the loop of check_cancel, for an id that has a counter
check_cancel_count(count) ==
    (IF count > cancel_interval THEN 0 ELSE count) + 1

\* check_cancel cancelling an order as soon as its counter reaches
\* cancel_interval
check_cancel_at_interval(st) ==
    LET due == {id \in st.active_orderids \cap DOMAIN st.cancel_counts :
                    st.cancel_counts[id] >= cancel_interval}
    IN [st EXCEPT
          !.cancel_counts = [id \in DOMAIN @ |->
                                IF id \in st.active_orderids
                                THEN (IF id \in due THEN 0 ELSE @[id]) + 1
                                ELSE @[id]],
          !.cancels = @ \cup due,
          !.exc = ~(st.active_orderids \subseteq DOMAIN st.cancel_counts)]

\* ChaseOrderEngine.check_cancel (cancel_order included); an active id
\* without a counter raises KeyError
check_cancel(st) ==
    LET due == {id \in st.active_orderids \cap DOMAIN st.cancel_counts :
                    st.cancel_counts[id] > cancel_interval}
    IN [st EXCEPT
          !.cancel_counts = [id \in DOMAIN @ |->
                                IF id \in st.active_orderids
                                THEN check_cancel_count(@[id]) ELSE @[id]],
          !.cancels = @ \cup due,
          !.exc = ~(st.active_orderids \subseteq DOMAIN st.cancel_counts)]


(***************************************************************************)
(* The hedge engine.  What a handler reads from the option engine while it *)
(* runs is its input env: whether the portfolio is among the active        *)
(* portfolios, the symbol of the underlying the portfolio holds, the chain *)
(* it holds, the underlying's mid price and tick price, the price at which *)
(* the aggregate delta of the positions is zero (the delta falls as the    *)
(* price rises), the portfolio's pos_delta and the cash deltas of the      *)
(* at-the-money call and put.                                              *)
(***************************************************************************)
Abs(x) == IF x < 0 THEN -x ELSE x

put_hedge_status_event(st) == [st EXCEPT !.notified = @ + 1]

write_log(st, msg) == [st EXCEPT !.logs = Append(@, msg)]

\* HedgeEngine.is_auto_hedge: the value it returns ...
is_auto_hedge_value(st, portfolio_name) ==
    IF portfolio_name \notin DOMAIN st.auto_hedge_flags THEN "None"
    ELSE IF st.auto_hedge_flags[portfolio_name] THEN "True" ELSE "False"

\* ... and the state it leaves
is_auto_hedge(st, portfolio_name) ==
    IF portfolio_name \notin DOMAIN st.auto_hedge_flags
    THEN [st EXCEPT !.auto_hedge_flags = (portfolio_name :> FALSE) @@ @]
    ELSE st

\* start_auto_hedge notifying on every call
start_auto_hedge_always(st, portfolio_name, params) ==
    write_log(put_hedge_status_event(
        [st EXCEPT !.hedge_parameters = (portfolio_name :> params) @@ @,
                   !.auto_hedge_flags = (portfolio_name :> TRUE) @@ @]),
        "started")

\* HedgeEngine.start_auto_hedge
start_auto_hedge(st, portfolio_name, params) ==
    LET st1 == [st EXCEPT !.hedge_parameters = (portfolio_name :> params) @@ @]
        st2 == is_auto_hedge(st1, portfolio_name)
    IN IF is_auto_hedge_value(st1, portfolio_name) = "True" THEN st2
       ELSE write_log(put_hedge_status_event(
                [st2 EXCEPT !.auto_hedge_flags = (portfolio_name :> TRUE) @@ @]),
                "started")

\* stop_auto_hedge cancelling the orders that are still working
stop_auto_hedge_cancels_orders(st, portfolio_name) ==
    LET st1 == is_auto_hedge(st, portfolio_name)
    IN IF is_auto_hedge_value(st, portfolio_name) # "True" THEN st1
       ELSE write_log(put_hedge_status_event(
                [st1 EXCEPT !.auto_hedge_flags = (portfolio_name :> FALSE) @@ @,
                            !.cancels = @ \cup st.active_orderids]),
                "stopped")

\* HedgeEngine.stop_auto_hedge
stop_auto_hedge(st, portfolio_name) ==
    LET st1 == is_auto_hedge(st, portfolio_name)
    IN IF is_auto_hedge_value(st, portfolio_name) # "True" THEN st1
       ELSE write_log(put_hedge_status_event(
                [st1 EXCEPT !.auto_hedge_flags = (portfolio_name :> FALSE) @@ @]),
                "stopped")

\* HedgeEngine.get_portfolio
get_portfolio(st, env) ==
    IF env.present THEN st ELSE write_log(st, "no portfolio")

\* HedgeEngine.get_underlying: whether it returns an underlying ...
has_underlying(st, env, portfolio_name) ==
    \/ portfolio_name \in st.underlyings
    \/ /\ env.present
       /\ portfolio_name \in DOMAIN underlying_symbols
       /\ underlying_symbols[portfolio_name] = env.symbol

\* ... and the state it leaves
get_underlying(st, env, portfolio_name) ==
    IF portfolio_name \in st.underlyings THEN st
    ELSE IF ~env.present THEN get_portfolio(st, env)
    ELSE IF portfolio_name \notin DOMAIN underlying_symbols
    THEN write_log(st, "no underlying symbol")
    ELSE IF underlying_symbols[portfolio_name] # env.symbol
    THEN write_log(st, "no underlying")
    ELSE [st EXCEPT !.underlyings = @ \cup {portfolio_name}]

\* HedgeEngine.calculate_pos_delta for a present portfolio
calculate_pos_delta(zero, price) == zero - price

\* 0.3% of a price, to the nearest price unit
PriceStep(price) == (price * 3 + 500) \div 1000

\* HedgeEngine.calculate_balance_price up to the entry of its loop; with no
\* portfolio calculate_pos_delta returns None and the comparison raises
calculate_balance_price(st, env, portfolio_name) ==
    LET st1 == get_underlying(st, env, portfolio_name)
    IN IF ~has_underlying(st, env, portfolio_name) THEN st1
       ELSE IF ~env.present THEN [get_portfolio(st1, env) EXCEPT !.exc = TRUE]
       ELSE [st1 EXCEPT !.search =
                [pf |-> portfolio_name,
                 up |-> calculate_pos_delta(env.zero, env.mid) > 0,
                 price |-> env.mid, zero |-> env.zero,
                 steps |-> 0, writes |-> 0]]

\* one iteration of the loop of calculate_balance_price
search_step(sr, prices) ==
    LET last_price == sr.price
        price == IF sr.up THEN last_price + PriceStep(last_price)
                 ELSE last_price - PriceStep(last_price)
        delta == calculate_pos_delta(sr.zero, price)
        hit   == IF sr.up THEN delta <= 0 ELSE delta >= 0
    IN [search |-> [sr EXCEPT !.price = price, !.steps = @ + 1,
                              !.writes = IF hit THEN @ + 1 ELSE @],
        balance_prices |-> IF hit THEN (sr.pf :> (last_price + price)) @@ prices
                           ELSE prices]

\* HedgeEngine.get_balance_price: whether a price is cached ...
has_balance_price(st, portfolio_name) ==
    /\ portfolio_name \in DOMAIN st.balance_prices
    /\ st.balance_prices[portfolio_name] # 0

\* ... what it returns when it returns: the price it read first, not the
\* one calculate_balance_price may have stored since ...
get_balance_price_value(st, portfolio_name) ==
    IF has_balance_price(st, portfolio_name)
    THEN [ret |-> "price", price |-> st.balance_prices[portfolio_name]]
    ELSE [ret |-> "None", price |-> 0]

\* ... and the state it leaves
get_balance_price(st, env, portfolio_name) ==
    IF has_balance_price(st, portfolio_name) THEN st
    ELSE calculate_balance_price(st, env, portfolio_name)

\* the handler cannot go on: an exception escaped or the search loop runs
Stopped(st) == st.exc \/ st.search.pf # "none"

\* HedgeEngine.calc_all_balance, from the i-th name on
RECURSIVE calc_all_balance(_, _, _)
calc_all_balance(st, env, i) ==
    IF i > Len(auto_portfolio_names) \/ Stopped(st) THEN st
    ELSE calc_all_balance(
             calculate_balance_price(st, env, auto_portfolio_names[i]), env, i + 1)

\* round(n / d) of Python 3 for n >= 0, d > 0: to the nearest integer, a
\* tie to the even one
py_round(n, d) ==
    LET q == n \div d
        r == n % d
    IN IF 2 * r > d THEN q + 1
       ELSE IF 2 * r < d THEN q
       ELSE IF q % 2 = 0 THEN q ELSE q + 1

\* HedgeEngine.get_synthesis_chain / get_synthesis_atm: whether the chain
\* with its at-the-money call and put is found
has_synthesis_atm(env, portfolio_name) ==
    /\ env.present
    /\ portfolio_name \in DOMAIN synthesis_chain_symbols
    /\ synthesis_chain_symbols[portfolio_name] = env.chain

unit_hedge_delta(env) == Abs(env.call_delta) + Abs(env.put_delta)

\* calc_hedge_volume rounding a tie upwards
calc_hedge_volume_half_up(hedge_params, env) ==
    (2 * Abs(env.pos_delta) * hedge_params.hedge_percent
        + 100 * unit_hedge_delta(env)) \div (200 * unit_hedge_delta(env))

\* HedgeEngine.calc_hedge_volume (hedge_percent is in percent)
calc_hedge_volume(hedge_params, env) ==
    py_round(Abs(env.pos_delta) * hedge_params.hedge_percent,
             100 * unit_hedge_delta(env))

\* action_hedge trading the same legs for either direction
action_hedge_same_legs(st, env, portfolio_name, direction) ==
    IF ~has_synthesis_atm(env, portfolio_name)
    THEN [get_portfolio(st, env) EXCEPT !.exc = TRUE]
    ELSE IF unit_hedge_delta(env) = 0 THEN [st EXCEPT !.exc = TRUE]
    ELSE LET to_hedge_volume ==
                 calc_hedge_volume(st.hedge_parameters[portfolio_name], env)
         IN IF to_hedge_volume = 0 THEN write_log(st, "below hedge unit")
            ELSE IF direction \in {"LONG", "SHORT"}
            THEN sell(buy(st, "call", to_hedge_volume), "put", to_hedge_volume)
            ELSE write_log(st, "unsupported direction")

\* HedgeEngine.action_hedge; a missing chain or a zero unit_hedge_delta raises
action_hedge(st, env, portfolio_name, direction) ==
    IF ~has_synthesis_atm(env, portfolio_name)
    THEN [get_portfolio(st, env) EXCEPT !.exc = TRUE]
    ELSE IF unit_hedge_delta(env) = 0 THEN [st EXCEPT !.exc = TRUE]
    ELSE LET to_hedge_volume ==
                 calc_hedge_volume(st.hedge_parameters[portfolio_name], env)
         IN IF to_hedge_volume = 0 THEN write_log(st, "below hedge unit")
            ELSE IF direction = "LONG"
            THEN sell(buy(st, "call", to_hedge_volume), "put", to_hedge_volume)
            ELSE IF direction = "SHORT"
            THEN sell(buy(st, "put", to_hedge_volume), "call", to_hedge_volume)
            ELSE write_log(st, "unsupported direction")

\* the comparison of auto_hedge with the bounds closed
hedge_direction_closed(balance2, offset_percent, tick) ==
    IF 200 * tick >= balance2 * (100 + offset_percent) THEN "LONG"
    ELSE IF 200 * tick <= balance2 * (100 - offset_percent) THEN "SHORT"
    ELSE "NONE"

\* the comparison of auto_hedge: tick against up = B * (1 + offset_percent)
\* and down = B * (1 - offset_percent), B = balance2 / 2, offset in percent
hedge_direction(balance2, offset_percent, tick) ==
    IF 200 * tick > balance2 * (100 + offset_percent) THEN "LONG"
    ELSE IF 200 * tick < balance2 * (100 - offset_percent) THEN "SHORT"
    ELSE "NONE"

\* the body of the loop of auto_hedge for one portfolio name
auto_hedge_one(st, env, portfolio_name) ==
    LET st1 == is_auto_hedge(st, portfolio_name)
        st2 == get_balance_price(st1, env, portfolio_name)
        st3 == get_underlying(st2, env, portfolio_name)
    IN IF is_auto_hedge_value(st, portfolio_name) # "True" THEN st1
       ELSE IF Stopped(st2) THEN st2
       ELSE IF ~has_balance_price(st1, portfolio_name)
               \/ portfolio_name \notin DOMAIN st.hedge_parameters
       THEN [st2 EXCEPT !.exc = TRUE]
       ELSE IF ~has_underlying(st2, env, portfolio_name)
       THEN [st3 EXCEPT !.exc = TRUE]
       ELSE LET direction ==
                    hedge_direction(st.balance_prices[portfolio_name],
                        st.hedge_parameters[portfolio_name].offset_percent,
                        env.tick)
                st4 == [st3 EXCEPT !.decisions = Append(@,
                           [pf |-> portfolio_name, direction |-> direction,
                            balance2 |-> st.balance_prices[portfolio_name],
                            offset_percent |->
                                st.hedge_parameters[portfolio_name].offset_percent,
                            tick |-> env.tick])]
            IN IF direction = "NONE" THEN st4
               ELSE action_hedge(st4, env, portfolio_name, direction)

\* HedgeEngine.auto_hedge, from the i-th name on
RECURSIVE auto_hedge(_, _, _)
auto_hedge(st, env, i) ==
    IF i > Len(auto_portfolio_names) \/ Stopped(st) THEN st
    ELSE auto_hedge(auto_hedge_one(st, env, auto_portfolio_names[i]), env, i + 1)

\* HedgeEngine.process_timer_event: the counters it leaves (it counts on
\* local copies) ...
process_timer_counters(c) == c

\* ... and what it runs
process_timer_event(st, env) ==
    LET st1 == IF counters.check_delta > check_delta_trigger
               THEN auto_hedge(st, env, 1) ELSE st
    IN IF ~registered \/ Stopped(st) \/ Stopped(st1) THEN st1
       ELSE IF counters.calculate_balance > calc_balance_trigger
       THEN calc_all_balance(st1, env, 1) ELSE st1

(***************************************************************************)
(* History kept for the properties: the outputs of the last operation,     *)
(* and accounts of the orders and the logical trades.                      *)
(*   track[id]        the trade the active order id belongs to, named by   *)
(*                    the first order id of the buy/sell/short/cover call  *)
(*                    behind it                                            *)
(*   trades[t].owed   volume asked for by the call minus the traded volume *)
(*                    of the trade's orders that were removed              *)
(*   watch            the orders of the latest send_order call that no     *)
(*                    status update has reached: the timer ticks since the *)
(*                    call (up to Stale) and the cancel requests issued    *)
(*                    for each of them since                               *)
(***************************************************************************)
NoOrder == [vt_orderid |-> 0, symbol |-> "call", direction |-> "LONG",
            offset |-> "NONE", price |-> 0, volume |-> 0, traded |-> 0,
            status |-> "NONE"]

Stale == cancel_interval + 3

NoWatch == [ids |-> {}, age |-> 0, ncancel |-> 0, even |-> TRUE]

\* the record of the operation op that ended in chase state st
\* the record of the operation op, called with call, that ended in state st
Outcome(op, st, event, arg, call) ==
    [op |-> op, event |-> event, arg |-> arg,
     tracked |-> event.vt_orderid \in active_orderids,
     calls |-> st.calls, submitted |-> st.submitted, new_ids |-> st.new_ids,
     cancels |-> st.cancels, exc |-> st.exc,
     pf |-> call.pf, params |-> call.params,
     ret |-> call.ret, price |-> call.price,
     was |-> is_auto_hedge_value(Engines, call.pf),
     notified |-> st.notified, logs |-> st.logs, decisions |-> st.decisions,
     hangs |-> st.search.pf # "none",
     again |-> op = "start_auto_hedge" /\ last.op = op /\ last.pf = call.pf]

NoOutcome ==
    [op |-> "none", event |-> NoOrder, arg |-> 0, tracked |-> FALSE,
     calls |-> <<>>, submitted |-> <<>>, new_ids |-> <<>>, cancels |-> {},
     exc |-> FALSE, pf |-> "none", params |-> NoParams,
     ret |-> "void", price |-> 0,
     was |-> "None", notified |-> 0, logs |-> <<>>, decisions |-> <<>>,
     hangs |-> FALSE, again |-> FALSE]

\* the hedge timer ticks since a portfolio was enabled by start_auto_hedge
\* in which no hedge-evaluation pass ran (counted up to WaitCap)
WaitCap == check_delta_trigger + 3

Waiting(op, st, call, tick) ==
    LET on == {pf \in DOMAIN st.auto_hedge_flags : st.auto_hedge_flags[pf]}
        evaluated == tick /\ registered
                     /\ counters.check_delta > check_delta_trigger
    IN [pf \in on |->
           IF pf \notin DOMAIN waiting \/ evaluated THEN 0
           ELSE IF tick /\ registered /\ waiting[pf] < WaitCap
           THEN waiting[pf] + 1
           ELSE waiting[pf]]

NewIds(st) == {st.new_ids[i] : i \in 1..Len(st.new_ids)}

\* the trade of the orders submitted in this operation: that of the
\* cancelled order on a resend, a new one for a call of buy/sell/short/cover
TradeOfNew(st, event) ==
    IF event.vt_orderid \in DOMAIN track THEN track[event.vt_orderid]
    ELSE st.new_ids[1]

Track(st, event) ==
    [id \in st.active_orderids |->
        IF id \in NewIds(st) \/ id \notin DOMAIN track
        THEN TradeOfNew(st, event) ELSE track[id]]

\* even: every watched order got the same number of cancel requests
Watch(st, event, tick) ==
    IF st.new_ids # <<>>
    THEN [ids |-> NewIds(st), age |-> 0, ncancel |-> 0, even |-> TRUE]
    ELSE LET ids == (watch.ids \cap st.active_orderids) \ {event.vt_orderid}
         IN IF ids = {} \/ (tick /\ watch.age + 1 >= Stale) THEN NoWatch
            ELSE IF ~tick THEN [watch EXCEPT !.ids = ids]
            ELSE [ids |-> ids, age |-> watch.age + 1,
                  ncancel |-> IF ids \cap st.cancels # {}
                              THEN watch.ncancel + 1 ELSE watch.ncancel,
                  even |-> watch.even /\ (ids \cap st.cancels) \in {{}, ids}]

\* A trade is kept while it has active orders or owes volume; a trade one
\* of whose orders was rejected owes nothing any more.
Trades(st, event) ==
    LET started == IF event.vt_orderid \in DOMAIN track \/ st.new_ids = <<>>
                   THEN {} ELSE {st.new_ids[1]}
        gone    == event.vt_orderid \in DOMAIN track
                   /\ event.vt_orderid \notin st.active_orderids
        all     == [t \in DOMAIN trades \cup started |->
                      IF t \in started
                      THEN [owed |-> st.calls[1].volume, rejected |-> FALSE]
                      ELSE IF gone /\ track[event.vt_orderid] = t
                      THEN IF trades[t].rejected \/ event.status = "REJECTED"
                           THEN [owed |-> 0, rejected |-> TRUE]
                           ELSE [owed |-> trades[t].owed - event.traded,
                                 rejected |-> FALSE]
                      ELSE trades[t]]
        live    == {Track(st, event)[id] : id \in st.active_orderids}
    IN Restrict(all, {t \in DOMAIN all : t \in live \/ all[t].owed # 0})

\* The history a run keeps is fixed by hist: "event" keeps the outputs of
\* every call and order event, "trade" the accounts of the logical trades,
\* "timer" the outputs of the timer ticks and the watch on the latest orders.
CommitCall(op, st, event, arg, tick, call) ==
    /\ st.next_id <= MaxOrders
    /\ search.pf = "none" \/ st.search.pf = "none"
    /\ auto_hedge_flags' = st.auto_hedge_flags
    /\ hedge_parameters' = st.hedge_parameters
    /\ balance_prices' = st.balance_prices
    /\ underlyings' = st.underlyings
    /\ search' = IF st.search.pf # "none" THEN st.search ELSE search
    /\ counters' = IF tick /\ registered THEN process_timer_counters(counters)
                   ELSE counters
    /\ active_orderids' = st.active_orderids
    /\ cancel_counts' = st.cancel_counts
    /\ orders' = st.orders
    /\ next_id' = st.next_id
    /\ last' = IF (hist \in {"event", "price"} /\ ~tick)
                  \/ (hist = "timer" /\ tick) \/ hist = "hedge"
                  \/ (hist = "stop"
                         /\ op \in {"stop_auto_hedge", "order", "timer"})
               THEN Outcome(op, st, event, arg, call) ELSE NoOutcome
    /\ track' = IF hist = "trade" THEN Track(st, event) ELSE track
    /\ trades' = IF hist = "trade" THEN Trades(st, event) ELSE trades
    /\ watch' = IF hist = "timer" THEN Watch(st, event, tick) ELSE watch
    /\ waiting' = IF hist = "wait" THEN Waiting(op, st, call, tick) ELSE waiting
    /\ UNCHANGED <<underlying_symbols, synthesis_chain_symbols,
                   auto_portfolio_names, registered, pay_up, quotes, hist, fn>>

Commit(op, st, event, arg, tick) == CommitCall(op, st, event, arg, tick, NoCall)

(***************************************************************************)
(* Operations of the chase engine.                                         *)
(***************************************************************************)
Buy ==
    \E s \in CallerSymbols, v \in 1..MaxVolume :
        /\ Commit("buy", buy(Engines, s, v), NoOrder, v, FALSE)
        /\ UNCHANGED max_volume

Sell ==
    \E s \in CallerSymbols, v \in 1..MaxVolume :
        /\ Commit("sell", sell(Engines, s, v), NoOrder, v, FALSE)
        /\ UNCHANGED max_volume

Short ==
    \E s \in CallerSymbols, v \in 1..MaxVolume :
        /\ Commit("short", short(Engines, s, v), NoOrder, v, FALSE)
        /\ UNCHANGED max_volume

Cover ==
    \E s \in CallerSymbols, v \in 1..MaxVolume :
        /\ Commit("cover", cover(Engines, s, v), NoOrder, v, FALSE)
        /\ UNCHANGED max_volume

\* the status updates the host can report for its open order o
HostUpdates(o) ==
    {u \in [status : Statuses, traded : o.traded..o.volume] :
        \/ u.status = "NOTTRADED" /\ o.status = "NOTTRADED" /\ u.traded = 0
        \/ u.status = "PARTTRADED" /\ u.traded > o.traded /\ u.traded < o.volume
        \/ u.status = "ALLTRADED" /\ u.traded = o.volume /\ o.volume > o.traded
        \/ u.status = "CANCELLED"
        \/ u.status = "REJECTED" /\ o.status = "NOTTRADED" /\ u.traded = 0}

\* EVENT_ORDER for an open order of the host: the host updates its book and
\* the event is dispatched to process_order_event
OrderEvent ==
    \E id \in DOMAIN orders :
      \E u \in HostUpdates(orders[id]) :
        LET o == [orders[id] EXCEPT !.status = u.status, !.traded = u.traded]
            order == [vt_orderid |-> id, symbol |-> o.symbol,
                      direction |-> o.direction, offset |-> o.offset,
                      price |-> o.price,
                      volume |-> o.volume, traded |-> o.traded,
                      status |-> o.status]
            book == IF is_active(o) THEN [orders EXCEPT ![id] = o]
                    ELSE Restrict(orders, DOMAIN orders \ {id})
            st == process_order_event([Engines EXCEPT !.orders = book], order)
        IN /\ Commit("order", st, order, 0, FALSE)
           /\ UNCHANGED max_volume

\* EVENT_ORDER for an id the host has closed already (a repeated event) or
\* for an order of another application (id 0)
StrayEvent ==
    \E id \in (0..next_id) \ DOMAIN orders :
      \E status \in IF id = 0 THEN {"PARTTRADED", "CANCELLED"} ELSE {"CANCELLED"} :
        LET order == [vt_orderid |-> id, symbol |-> "call",
                      direction |-> "LONG", offset |-> "NONE",
                      price |-> quotes["call"].ask_price_1, volume |-> 1,
                      traded |-> 0, status |-> status]
        IN /\ Commit("stray", process_order_event(Engines, order), order,
                     0, FALSE)
           /\ UNCHANGED max_volume

\* EVENT_TIMER: ChaseOrderEngine.process_timer_event, then (once it is
\* registered) HedgeEngine.process_timer_event
TimerEvent ==
    \E env \in IF registered /\ (counters.check_delta > check_delta_trigger
                    \/ counters.calculate_balance > calc_balance_trigger)
                THEN HostViews ELSE {AbsentView} :
        /\ CommitCall("timer",
                      process_timer_event(check_cancel(Engines), env),
                      NoOrder, 0, TRUE, NoCall)
        /\ UNCHANGED max_volume

(***************************************************************************)
(* Operations of the hedge engine.                                         *)
(***************************************************************************)
RegisterEvent ==
    /\ registered' = TRUE
    /\ last' = IF hist = "hedge"
               THEN Outcome("register_event", Engines, NoOrder, 0, NoCall)
               ELSE NoOutcome
    /\ UNCHANGED <<auto_hedge_flags, hedge_parameters, balance_prices,
                   underlyings, underlying_symbols, synthesis_chain_symbols,
                   auto_portfolio_names, counters, search, chaseVars,
                   hostVars, track, trades, watch, waiting, hist, fn>>

SetUnderlyingSymbol ==
    \E pf \in Portfolios :
        /\ underlying_symbols' = (pf :> "U") @@ underlying_symbols
        /\ last' = IF hist = "hedge"
                   THEN Outcome("set_underlying_symbol", Engines, NoOrder, 0,
                                [NoCall EXCEPT !.pf = pf])
                   ELSE NoOutcome
        /\ UNCHANGED <<auto_hedge_flags, hedge_parameters, balance_prices,
                       underlyings, synthesis_chain_symbols,
                       auto_portfolio_names, counters, registered, search,
                       chaseVars, hostVars, track, trades, watch, waiting,
                       hist, fn>>

SetSynthesisChainSymbol ==
    \E pf \in Portfolios :
        /\ synthesis_chain_symbols' = (pf :> "C") @@ synthesis_chain_symbols
        /\ last' = IF hist = "hedge"
                   THEN Outcome("set_synthesis_chain_symbol", Engines, NoOrder,
                                0, [NoCall EXCEPT !.pf = pf])
                   ELSE NoOutcome
        /\ UNCHANGED <<auto_hedge_flags, hedge_parameters, balance_prices,
                       underlyings, underlying_symbols, auto_portfolio_names,
                       counters, registered, search, chaseVars, hostVars,
                       track, trades, watch, waiting, hist, fn>>

StartAutoHedge ==
    \E pf \in Portfolios, params \in ParamSets :
        /\ CommitCall("start_auto_hedge",
                      start_auto_hedge(Engines, pf, params), NoOrder, 0, FALSE,
                      [NoCall EXCEPT !.pf = pf, !.params = params])
        /\ UNCHANGED max_volume

StopAutoHedge ==
    \E pf \in Portfolios :
        /\ CommitCall("stop_auto_hedge", stop_auto_hedge(Engines, pf),
                      NoOrder, 0, FALSE, [NoCall EXCEPT !.pf = pf])
        /\ UNCHANGED max_volume

\* is_auto_hedge called by the host
IsAutoHedge ==
    \E pf \in Portfolios :
        /\ CommitCall("is_auto_hedge", is_auto_hedge(Engines, pf),
                      NoOrder, 0, FALSE,
                      [NoCall EXCEPT !.pf = pf,
                                     !.ret = is_auto_hedge_value(Engines, pf)])
        /\ UNCHANGED max_volume

\* get_balance_price called by the host (the hedge widget); nothing is
\* returned when calculate_balance_price raises or stays in its loop
GetBalancePrice ==
    \E pf \in Portfolios, env \in BalanceViews :
        LET st == get_balance_price(Engines, env, pf)
            value == get_balance_price_value(Engines, pf)
        IN /\ CommitCall("get_balance_price", st, NoOrder, 0, FALSE,
                         IF Stopped(st) THEN [NoCall EXCEPT !.pf = pf]
                         ELSE [NoCall EXCEPT !.pf = pf, !.ret = value.ret,
                                             !.price = value.price])
           /\ UNCHANGED max_volume

\* auto_hedge called by the host
AutoHedge ==
    \E env \in HostViews :
        /\ CommitCall("auto_hedge", auto_hedge(Engines, env, 1), NoOrder, 0,
                      FALSE, NoCall)
        /\ UNCHANGED max_volume

\* calc_all_balance called by the host
CalcAllBalance ==
    \E env \in BalanceViews :
        /\ CommitCall("calc_all_balance", calc_all_balance(Engines, env, 1),
                      NoOrder, 0, FALSE, NoCall)
        /\ UNCHANGED max_volume

\* the thread inside calculate_balance_price runs one iteration of the loop
SearchStep ==
    /\ search.pf # "none"
    /\ search.steps < MaxSteps
    /\ LET r == search_step(search, balance_prices)
       IN /\ search' = r.search
          /\ balance_prices' = r.balance_prices
    /\ last' = IF hist = "hedge"
               THEN [NoOutcome EXCEPT !.op = "search_step", !.pf = search.pf]
               ELSE NoOutcome
    /\ UNCHANGED <<auto_hedge_flags, hedge_parameters, underlyings,
                   underlying_symbols, synthesis_chain_symbols,
                   auto_portfolio_names, counters, registered, chaseVars,
                   hostVars, track, trades, watch, waiting, hist, fn>>

\* calculate_greeks raises inside the loop: the exception leaves
\* calculate_balance_price and its callers
SearchRaises ==
    /\ search.pf # "none"
    /\ search' = NoSearch
    /\ last' = IF hist = "hedge"
               THEN [NoOutcome EXCEPT !.op = "search_raises", !.pf = search.pf,
                                      !.exc = TRUE]
               ELSE NoOutcome
    /\ UNCHANGED <<auto_hedge_flags, hedge_parameters, balance_prices,
                   underlyings, underlying_symbols, synthesis_chain_symbols,
                   auto_portfolio_names, counters, registered, chaseVars,
                   hostVars, track, trades, watch, waiting, hist, fn>>

NoFn == [op |-> "none"]

\* the engines as constructed, but for the configured max_volume
Construct ==
    /\ auto_hedge_flags = <<>>
    /\ hedge_parameters = <<>>
    /\ balance_prices = <<>>
    /\ underlyings = {}
    /\ underlying_symbols = <<>>
    /\ synthesis_chain_symbols = <<>>
    /\ counters = [check_delta |-> 0, calculate_balance |-> 0]
    /\ registered = FALSE
    /\ search = NoSearch
    /\ waiting = <<>>
    /\ active_orderids = {}
    /\ cancel_counts = <<>>
    /\ orders = <<>>
    /\ next_id = 0
    /\ last = NoOutcome
    /\ track = <<>>
    /\ trades = <<>>
    /\ watch = NoWatch

InitState ==
    /\ Construct
    /\ auto_portfolio_names = <<>>
    /\ max_volume \in 1..MaxCap
    /\ pay_up = 0
    /\ quotes = RestingQuotes
    /\ fn = NoFn

Next ==
    \/ Buy
    \/ Sell
    \/ Short
    \/ Cover
    \/ OrderEvent
    \/ StrayEvent
    \/ TimerEvent

\* the chase engine under every input, keeping the outputs of each operation
Init == InitState /\ hist = "event"
Spec == Init /\ [][Next]_vars

\* the same, keeping the accounts of the logical trades
InitTrade == InitState /\ hist = "trade"
SpecTrade == InitTrade /\ [][Next]_vars

\* the same, keeping the watch on the latest orders
InitTimer == InitState /\ hist = "timer"
SpecTimer == InitTimer /\ [][Next]_vars

\* a new tick of a symbol reaches the host
QuoteUpdate ==
    \E s \in CallerSymbols, q \in Quotes :
        /\ quotes' = [quotes EXCEPT ![s] = q]
        /\ last' = IF hist = "price"
                   THEN [NoOutcome EXCEPT !.op = "tick"] ELSE NoOutcome
        /\ UNCHANGED <<hedgeVars, chaseVars, orders, next_id, track, trades,
                       watch, waiting, hist, fn>>

NextPrice ==
    \/ Buy
    \/ Sell
    \/ OrderEvent
    \/ QuoteUpdate

\* the chase engine under changing quotes and any configured pay_up
InitPrice ==
    /\ Construct
    /\ auto_portfolio_names = <<>>
    /\ max_volume \in 1..MaxCap
    /\ pay_up \in 0..MaxPayUp
    /\ quotes = RestingQuotes
    /\ fn = NoFn
    /\ hist = "price"

SpecPrice == InitPrice /\ [][NextPrice]_vars

\* the hedge engine with the list of its portfolios filled in by the host;
\* the orders it sends rest with the host
InitHedgeState ==
    /\ Construct
    /\ auto_portfolio_names = <<"p1">>
    /\ max_volume = MaxCap
    /\ pay_up = 0
    /\ quotes = RestingQuotes
    /\ fn = NoFn

NextHedge ==
    \/ RegisterEvent
    \/ SetUnderlyingSymbol
    \/ SetSynthesisChainSymbol
    \/ StartAutoHedge
    \/ StopAutoHedge
    \/ IsAutoHedge
    \/ GetBalancePrice
    \/ AutoHedge
    \/ CalcAllBalance
    \/ SearchStep
    \/ SearchRaises
    \/ TimerEvent

\* ... keeping the outputs of each operation
InitHedge == InitHedgeState /\ hist = "hedge"
SpecHedge == InitHedge /\ [][NextHedge]_vars

\* ... keeping the wait of the enabled portfolios for an evaluation
InitWait == InitHedgeState /\ hist = "wait"
SpecWait == InitWait /\ [][NextHedge]_vars

(***************************************************************************)
(* The hedge engine sending its orders through the chase engine, which     *)
(* works them while automatic hedging is started and stopped.              *)
(***************************************************************************)
NextStop ==
    \/ SetUnderlyingSymbol
    \/ SetSynthesisChainSymbol
    \/ StartAutoHedge
    \/ StopAutoHedge
    \/ CalcAllBalance
    \/ SearchStep
    \/ AutoHedge
    \/ OrderEvent
    \/ TimerEvent

\* ... keeping the outputs of stop_auto_hedge, order events and timer ticks
InitStop == InitHedgeState /\ hist = "stop"
SpecStop == InitStop /\ [][NextStop]_vars


(***************************************************************************)
(* split_req applied on its own to a request of any volume under any cap.  *)
(***************************************************************************)
Volumes(reqs) == [i \in 1..Len(reqs) |-> reqs[i].volume]

SplitReq ==
    /\ fn.op = "input"
    /\ fn' = [op |-> "split_req", volume |-> fn.volume,
              out |-> Volumes(split_req(
                  [symbol |-> "call", direction |-> "LONG", offset |-> "NONE",
                   price |-> quotes["call"].ask_price_1,
                   type |-> "LIMIT", volume |-> fn.volume])),
              objects |-> split_req_objects(
                  [symbol |-> "call", direction |-> "LONG", offset |-> "NONE",
                   price |-> quotes["call"].ask_price_1,
                   type |-> "LIMIT", volume |-> fn.volume])]
    /\ UNCHANGED <<hedgeVars, chaseVars, hostVars, histVars>>

InitSplit ==
    /\ Construct
    /\ auto_portfolio_names = <<>>
    /\ max_volume \in 1..MaxSplitCap
    /\ pay_up = 0
    /\ quotes = RestingQuotes
    /\ fn \in [op : {"input"}, volume : 0..MaxSplitVolume]
    /\ hist = "none"

NextSplit == SplitReq

SpecSplit == InitSplit /\ [][NextSplit]_vars


(***************************************************************************)
(* calc_hedge_volume applied on its own to any position delta.             *)
(***************************************************************************)
CalcHedgeVolume ==
    /\ fn.op = "volume"
    /\ fn' = [op |-> "calc_hedge_volume", params |-> fn.params,
              env |-> fn.env, out |-> calc_hedge_volume(fn.params, fn.env)]
    /\ UNCHANGED <<hedgeVars, chaseVars, hostVars, histVars>>

InitVolume ==
    /\ Construct
    /\ auto_portfolio_names = <<>>
    /\ max_volume = MaxCap
    /\ pay_up = 0
    /\ quotes = RestingQuotes
    /\ fn \in {[op |-> "volume", params |-> p,
                 env |-> [View(ZeroPrice, ZeroPrice, d) EXCEPT
                              !.call_delta = c, !.put_delta = q]] :
                   p \in ParamSets, d \in (-MaxPosDelta)..MaxPosDelta,
                   c \in CallDeltas, q \in PutDeltas}
    /\ hist = "none"

NextVolume == CalcHedgeVolume

SpecVolume == InitVolume /\ [][NextVolume]_vars


(***************************************************************************)
(* action_hedge applied on its own, for any direction and position delta,  *)
(* to a portfolio that start_auto_hedge has enabled.                       *)
(***************************************************************************)
Directions == {"LONG", "SHORT", "NET"}

ActionHedge ==
    /\ fn.op = "hedge"
    /\ LET st == action_hedge(Engines, fn.env, "p1", fn.direction)
       IN fn' = [op |-> "action_hedge", direction |-> fn.direction,
                 env |-> fn.env, calls |-> st.calls,
                 submitted |-> st.submitted, logs |-> st.logs,
                 exc |-> st.exc]
    /\ UNCHANGED <<hedgeVars, chaseVars, hostVars, histVars>>

\* the engines after start_auto_hedge("p1", params), with or without
\* set_synthesis_chain_symbol("p1", "C")
InitAction ==
    /\ auto_hedge_flags = ("p1" :> TRUE)
    /\ \E params \in ParamSets : hedge_parameters = ("p1" :> params)
    /\ balance_prices = <<>>
    /\ underlyings = {}
    /\ underlying_symbols = <<>>
    /\ synthesis_chain_symbols \in {<<>>, ("p1" :> "C")}
    /\ auto_portfolio_names = <<"p1">>
    /\ counters = [check_delta |-> 0, calculate_balance |-> 0]
    /\ registered = FALSE
    /\ search = NoSearch
    /\ active_orderids = {}
    /\ cancel_counts = <<>>
    /\ max_volume \in 1..MaxCap
    /\ pay_up = 0
    /\ orders = <<>>
    /\ next_id = 0
    /\ quotes = RestingQuotes
    /\ last = NoOutcome
    /\ track = <<>>
    /\ trades = <<>>
    /\ watch = NoWatch
    /\ waiting = <<>>
    /\ hist = "none"
    /\ fn \in {[op |-> "hedge", direction |-> dir,
                 env |-> View(ZeroPrice, ZeroPrice, d)] :
                   dir \in Directions, d \in (-MaxHedgeDelta)..MaxHedgeDelta}

NextAction == ActionHedge

SpecAction == InitAction /\ [][NextAction]_vars


(***************************************************************************)
(* Properties.                                                             *)
(***************************************************************************)

\* C1: in every reachable state the keys of cancel_counts are exactly the
\* active order ids.
CancelCountsInLockstep == DOMAIN cancel_counts = active_orderids

\* a cancelled order was removed and resent while another order was active
CancelCountsInLockstepWitness ==
    /\ last.op = "order" /\ last.tracked
    /\ last.event.status = "CANCELLED"
    /\ Cardinality(active_orderids) >= 2
    /\ last.event.vt_orderid \notin DOMAIN cancel_counts

ActiveOf(t) == {id \in active_orderids : track[id] = t}

Requested(t) == SumSet([id \in ActiveOf(t) |-> orders[id].volume], ActiveOf(t))

\* C2: for every logical trade none of whose orders was rejected, the volume
\* asked for equals the requested volumes of its active orders plus the
\* traded volumes of its removed orders (owed = volume asked for minus the
\* traded volumes of the removed orders).
ExposureConserved ==
    \A t \in DOMAIN trades : ~trades[t].rejected => trades[t].owed = Requested(t)

\* a trade whose first order was removed after a partial fill and which has
\* a later order active
ExposureConservedWitness ==
    \E t \in DOMAIN trades :
        /\ ~trades[t].rejected
        /\ t \notin active_orderids
        /\ trades[t].owed = 1
        /\ max_volume = 2
        /\ ActiveOf(t) = {t + 1}
        /\ next_id = t + 1

\* the spec's example: requested 63, traded 20
Order63 == [vt_orderid |-> 1, symbol |-> "put", direction |-> "SHORT",
            offset |-> "NONE", price |-> 99, volume |-> 63, traded |-> 20,
            status |-> "CANCELLED"]

State63 ==
    [Engines EXCEPT !.active_orderids = {1}, !.cancel_counts = (1 :> 2),
                       !.orders = <<>>, !.next_id = 1]

\* what order is resent as: one send_order call for the remainder
ResendCall(order) ==
    [symbol |-> order.symbol, direction |-> order.direction,
     offset |-> order.offset, volume |-> order.volume - order.traded,
     price |-> 0]

\* C3: a Cancelled event for a tracked order with requested volume above the
\* traded volume makes exactly one send_order call, for the remainder and
\* with the order's symbol, direction and offset, and the order's id is not
\* active afterwards; so it is for requested 63 and traded 20 (one call
\* for 43).
CancelResendsRemainder ==
    /\ (last.op = "order" /\ last.tracked /\ last.event.status = "CANCELLED"
        /\ last.event.volume > last.event.traded)
       => /\ last.calls = <<ResendCall(last.event)>>
          /\ last.event.vt_orderid \notin active_orderids
    /\ LET st == process_order_event(State63, Order63)
       IN /\ st.calls = <<ResendCall(Order63)>>
          /\ st.calls[1].volume = 43
          /\ 1 \notin st.active_orderids

\* an order of volume 2 was cancelled after 1 had traded
CancelResendsRemainderWitness ==
    /\ last.op = "order" /\ last.tracked /\ last.event.status = "CANCELLED"
    /\ last.event.volume = 2 /\ last.event.traded = 1
    /\ Len(last.calls) = 1

\* C4: the children split_req returns for a volume V >= 1 under a cap
\* M >= 1 have volumes that sum to V, each at most M, at most one below M.
SplitVolumes ==
    fn.op = "split_req" =>
        /\ SumSeq(fn.out) = fn.volume
        /\ \A i \in 1..Len(fn.out) : fn.out[i] <= max_volume
        /\ Cardinality({i \in 1..Len(fn.out) : fn.out[i] < max_volume}) <= 1

\* volume 63 under cap 30 splits into 30, 30 and 3
SplitVolumesWitness ==
    /\ fn.op = "split_req" /\ fn.volume = 63 /\ max_volume = 30
    /\ fn.out = <<30, 30, 3>>

EnabledPortfolioEvaluatedInTime ==
    \A pf \in DOMAIN waiting : waiting[pf] <= check_delta_trigger + 2

\* C7: in a hedge-evaluation pass that reaches the comparison for a
\* portfolio with balance price B = balance2 / 2, offset p and tick T, the
\* direction is long iff T > B(1+p), short iff T < B(1-p), and inside the
\* band, boundaries included, nothing is done (no order, no log line); a
\* long hedge that sends orders starts with the call, a short one with the
\* put.  For B = 100.00 and p = 5%: 106.00 long, 94.00 short, 100.00 none.
HedgeBand ==
    last.op = "auto_hedge" =>
        \A i \in 1..Len(last.decisions) :
            LET d  == last.decisions[i]
                lo == d.balance2 * (100 - d.offset_percent)
                hi == d.balance2 * (100 + d.offset_percent)
                T  == 200 * d.tick
            IN /\ d.direction = "LONG" <=> T > hi
               /\ d.direction = "SHORT" <=> T < lo
               /\ d.direction = "NONE" <=> (lo <= T /\ T <= hi)
               /\ d.direction = "NONE" => last.calls = <<>> /\ last.logs = <<>>
               /\ d.direction = "LONG" /\ last.calls # <<>>
                      => last.calls[1].symbol = "call"
               /\ d.direction = "SHORT" /\ last.calls # <<>>
                      => last.calls[1].symbol = "put"
               /\ d.balance2 = 20000 /\ d.offset_percent = 5 =>
                      /\ d.tick = 10600 => d.direction = "LONG"
                      /\ d.tick = 9400 => d.direction = "SHORT"
                      /\ d.tick = 10000 => d.direction = "NONE"

\* a pass found the tick on the upper boundary of the band and did nothing
HedgeBandWitness ==
    /\ last.op = "auto_hedge"
    /\ \E i \in 1..Len(last.decisions) :
          /\ last.decisions[i].balance2 = 20000
          /\ last.decisions[i].tick = 10500
          /\ last.decisions[i].direction = "NONE"

VolumeNumerator == Abs(fn.env.pos_delta) * fn.params.hedge_percent
VolumeDenominator == 100 * (Abs(fn.env.call_delta) + Abs(fn.env.put_delta))

\* pos_delta -1000, hedge_percent 0.5, cash deltas +5 and -3
VolumeExample ==
    /\ fn.env.pos_delta = -1000
    /\ fn.params.hedge_percent = 50
    /\ fn.env.call_delta = 5
    /\ fn.env.put_delta = -3

\* C8 (as stated): calc_hedge_volume returns an integer nearest to
\* |pos_delta| * hedge_percent / (|call delta| + |put delta|), and 63 for
\* the example, whose quotient is 62.5.
HedgeVolumeExample63 ==
    fn.op = "calc_hedge_volume" =>
        /\ 2 * Abs(VolumeNumerator - fn.out * VolumeDenominator)
               <= VolumeDenominator
        /\ VolumeExample => fn.out = 63

\* C8 (amended): calc_hedge_volume returns the integer nearest to the
\* quotient, the even one of the two when the quotient lies halfway between
\* them, and so 62 for the example.
HedgeVolumeHalfEven ==
    fn.op = "calc_hedge_volume" =>
        /\ 2 * Abs(VolumeNumerator - fn.out * VolumeDenominator)
               <= VolumeDenominator
        /\ 2 * Abs(VolumeNumerator - fn.out * VolumeDenominator)
               = VolumeDenominator => fn.out % 2 = 0
        /\ VolumeExample => fn.out = 62

HedgeVolumeHalfEvenWitness ==
    fn.op = "calc_hedge_volume" /\ VolumeExample /\ fn.out = 62

\* C9: after start_auto_hedge(pf, params) the stored parameters of pf are
\* params and its flag is true; one notification and one log line were
\* emitted if the flag was not true before and none if it was, so the second
\* of two calls in a row emits nothing.
StartAutoHedgeNotifiesOnce ==
    last.op = "start_auto_hedge" =>
        /\ last.pf \in DOMAIN hedge_parameters
        /\ hedge_parameters[last.pf] = last.params
        /\ last.pf \in DOMAIN auto_hedge_flags
        /\ auto_hedge_flags[last.pf]
        /\ last.notified = IF last.was = "True" THEN 0 ELSE 1
        /\ Len(last.logs) = last.notified
        /\ last.again => last.notified = 0

\* the second of two calls in a row, made with other parameters than those
\* of an earlier hedge decision
StartAutoHedgeNotifiesOnceWitness ==
    /\ last.op = "start_auto_hedge"
    /\ last.again
    /\ last.notified = 0
    /\ hedge_parameters[last.pf] = last.params
    /\ last.params.hedge_percent = 100

\* C10 (as stated): calculate_balance_price stops and returns as soon as
\* the first bracketing sign change is found: no search is still running
\* once it has stored a balance price.
BalanceSearchStopsAtSignChange ==
    search.pf # "none" => search.writes = 0

PrimitivePair ==
    [buy   |-> [direction |-> "LONG",  offset |-> "OPEN"],
     sell  |-> [direction |-> "SHORT", offset |-> "CLOSE"],
     short |-> [direction |-> "SHORT", offset |-> "OPEN"],
     cover |-> [direction |-> "LONG",  offset |-> "CLOSE"]]

\* C11 (as stated): every child request that buy, sell, short or cover
\* submits to the host carries the direction and the offset of the primitive,
\* and the children of the call share symbol, direction, offset and price.
ChildrenCarryDirectionAndOffset ==
    last.op \in DOMAIN PrimitivePair =>
        \A i \in 1..Len(last.submitted) :
            /\ last.submitted[i].direction = PrimitivePair[last.op].direction
            /\ last.submitted[i].offset = PrimitivePair[last.op].offset
            /\ last.submitted[i].symbol = last.submitted[1].symbol
            /\ last.submitted[i].price = last.submitted[1].price

\* C12 (as stated): a hedge-evaluation pass skips an enabled portfolio whose
\* portfolio object, underlying symbol, underlying, cached balance price or
\* chain is missing: no exception escapes auto_hedge, and a pass that made no
\* hedge decision submitted no order.
NoExceptionEscapesAutoHedge ==
    last.op = "auto_hedge" =>
        /\ ~last.exc
        /\ last.decisions = <<>> => last.submitted = <<>>

\* C13 (as stated): is_auto_hedge returns a boolean: false for a portfolio
\* whose flag is absent, else the stored flag; and after the call the flag is
\* stored with the boolean it returned.
IsAutoHedgeReturnsBoolean ==
    last.op = "is_auto_hedge" =>
        /\ last.ret \in {"True", "False"}
        /\ last.pf \in DOMAIN auto_hedge_flags
        /\ auto_hedge_flags[last.pf] = (last.ret = "True")

\* C14 (as stated): when a tracked order is reported Cancelled with its whole
\* volume traded (remainder 0), no request is submitted to the host and no
\* new order id enters the active set.
NoResendOfZeroRemainder ==
    /\ last.op = "order"
    /\ last.tracked
    /\ last.event.status = "CANCELLED"
    /\ last.event.traded = last.event.volume
    => /\ last.submitted = <<>>
       /\ last.new_ids = <<>>
       /\ active_orderids \cap {id \in DOMAIN orders : orders[id].volume = 0} = {}

TerminalOrderRemoved ==
    /\ last.op = "order"
    /\ last.tracked
    /\ last.event.status \in {"ALLTRADED", "REJECTED"}
    => /\ last.event.vt_orderid \notin active_orderids
       /\ last.event.vt_orderid \notin DOMAIN cancel_counts
       /\ last.calls = <<>>
       /\ last.submitted = <<>>
       /\ last.new_ids = <<>>
       /\ last.cancels = {}

\* a partly filled order among others was reported fully filled
TerminalOrderRemovedWitness ==
    /\ last.op = "order"
    /\ last.tracked
    /\ last.event.status = "ALLTRADED"
    /\ last.event.volume > 1
    /\ last.event.vt_orderid \notin active_orderids
    /\ active_orderids # {}

\* the integer nearest to |pos_delta| * hedge_percent / unit_hedge_delta of
\* the portfolio that action_hedge was applied to, the even one on a tie
ActionVolume ==
    LET n == Abs(fn.env.pos_delta) * hedge_parameters["p1"].hedge_percent
        d == 100 * (Abs(fn.env.call_delta) + Abs(fn.env.put_delta))
    IN CHOOSE v \in 0..Abs(fn.env.pos_delta) :
           /\ 2 * Abs(n - v * d) <= d
           /\ 2 * Abs(n - v * d) = d => v % 2 = 0

Leg(symbol, direction, offset, volume) ==
    [symbol |-> symbol, direction |-> direction, offset |-> offset,
     volume |-> volume, price |-> 0]

\* C17: an action_hedge that ends without an exception has made, with v its
\* hedge volume, no chase-engine call if v = 0; for LONG and v > 0 exactly
\* buy(call, v) then sell(put, v); for SHORT and v > 0 exactly buy(put, v)
\* then sell(call, v); no call for any other direction; every request
\* submitted to the host comes from these calls (their volumes add up).
ActionHedgeOrders ==
    fn.op = "action_hedge" /\ ~fn.exc =>
        /\ fn.calls =
              IF ActionVolume = 0 THEN <<>>
              ELSE IF fn.direction = "LONG"
              THEN <<Leg("call", "LONG", "OPEN", ActionVolume),
                     Leg("put", "SHORT", "CLOSE", ActionVolume)>>
              ELSE IF fn.direction = "SHORT"
              THEN <<Leg("put", "LONG", "OPEN", ActionVolume),
                     Leg("call", "SHORT", "CLOSE", ActionVolume)>>
              ELSE <<>>
        /\ SumSeq([i \in 1..Len(fn.submitted) |-> fn.submitted[i].volume])
              = SumSeq([i \in 1..Len(fn.calls) |-> fn.calls[i].volume])

\* a short hedge of volume 2
ActionHedgeOrdersWitness ==
    /\ fn.op = "action_hedge"
    /\ ~fn.exc
    /\ fn.direction = "SHORT"
    /\ ActionVolume = 2
    /\ Len(fn.calls) = 2
    /\ fn.calls[1].symbol = "put"

\* C18 (as stated): get_balance_price, when no reference data is missing
\* (nothing is logged), returns a positive price, the one that is cached for
\* the portfolio when it returns: the cached one if there was one, else the
\* one it has just computed and cached.
GetBalancePriceReturnsPrice ==
    last.op = "get_balance_price" /\ last.logs = <<>> =>
        /\ ~last.hangs
        /\ ~last.exc
        /\ last.ret = "price"
        /\ last.price > 0
        /\ last.pf \in DOMAIN balance_prices
        /\ balance_prices[last.pf] = last.price

\* C19 (as stated): within one calculate_balance_price call the balance price
\* is written at most once: the first sign change wins and no later iteration
\* overwrites it.
BalancePriceWrittenOnce ==
    search.pf # "none" => search.writes <= 1

\* the aggressive price of a request at the quote and pay_up of the state
QuotedPrice(req) ==
    IF req.direction = "LONG"
    THEN quotes[req.symbol].ask_price_1
             + pay_up * Contracts[req.symbol].pricetick
    ELSE quotes[req.symbol].bid_price_1
             - pay_up * Contracts[req.symbol].pricetick

\* C20: every order sent with no price given (a primitive called without a
\* price, or a resend, which never passes the cancelled order's price on) is
\* priced from the quote current at the call: best ask plus pay_up price
\* ticks for LONG, best bid minus pay_up price ticks for SHORT.
OrdersPricedFromCurrentQuote ==
    last.op \in {"buy", "sell", "order"} =>
        /\ \A i \in 1..Len(last.calls) : last.calls[i].price = 0
        /\ \A i \in 1..Len(last.submitted) :
               last.submitted[i].price = QuotedPrice(last.submitted[i])

\* C20 witness: a cancellation resent at a price other than the cancelled
\* order's, with a pay_up that moves the price off the quote
OrdersPricedFromCurrentQuoteWitness ==
    /\ last.op = "order"
    /\ last.event.status = "CANCELLED"
    /\ last.submitted # <<>>
    /\ last.submitted[1].price # last.event.price
    /\ pay_up = 1

\* C21 (as stated): for a volume V >= 0 under a cap M > 0 split_req returns
\* floor(V / M) children of volume M followed, iff V mod M # 0, by one child
\* of volume V mod M (none at all for V = 0), and the children are separate
\* objects.
SplitCountsAndIndependence ==
    fn.op = "split_req" =>
        LET full == fn.volume \div max_volume
            rest == fn.volume % max_volume
        IN /\ Len(fn.out) = full + (IF rest # 0 THEN 1 ELSE 0)
           /\ \A i \in 1..Len(fn.out) :
                  fn.out[i] = IF i <= full THEN max_volume ELSE rest
           /\ \A i, j \in 1..Len(fn.objects) :
                  i # j => fn.objects[i] # fn.objects[j]

\* C22: an order event whose id is not in the active set changes nothing:
\* the active set, the cancel counters and the host's order book stay as they
\* are, nothing is submitted and nothing is cancelled. A resend therefore
\* happens only for an id that is in the active set before the event and out
\* of it afterwards, and ids that join the set are fresh, so no id is resent
\* twice.
UntrackedEventChangesNothing ==
    [][LET id == last'.event.vt_orderid
       IN last'.op \in {"order", "stray"} =>
            /\ id \notin active_orderids =>
                  /\ active_orderids' = active_orderids
                  /\ cancel_counts' = cancel_counts
                  /\ orders' = orders
                  /\ next_id' = next_id
                  /\ last'.calls = <<>>
                  /\ last'.submitted = <<>>
                  /\ last'.cancels = {}
            /\ last'.calls # <<>> =>
                  /\ id \in active_orderids
                  /\ id \notin active_orderids'
            /\ \A new \in active_orderids' \ active_orderids : new > next_id
      ]_vars

\* C22 witness: a repeated Cancelled event for an order the engine has closed, while
\* an order sent after it is still working
UntrackedEventChangesNothingWitness ==
    /\ last.op = "stray"
    /\ last.event.status = "CANCELLED"
    /\ last.event.vt_orderid # 0
    /\ ~last.tracked
    /\ \E id \in active_orderids : id > last.event.vt_orderid

\* C23: an order event with a working status (accepted and not traded, or
\* partly traded) for a tracked order leaves the active set and every cancel
\* counter as they are, submits nothing and cancels nothing; and a timer
\* tick moves each counter by its value alone (above cancel_interval back to
\* 1, else up by one), so a partial fill does not put off the cancel.
WorkingUpdateKeepsCounters ==
    [][/\ (/\ last'.op = "order"
           /\ last'.event.vt_orderid \in active_orderids
           /\ last'.event.status \in ActiveStatuses)
          => /\ active_orderids' = active_orderids
             /\ cancel_counts' = cancel_counts
             /\ last'.calls = <<>>
             /\ last'.submitted = <<>>
             /\ last'.cancels = {}
       /\ last'.op = "none"
          => /\ active_orderids' = active_orderids
             /\ \A id \in active_orderids :
                    cancel_counts'[id] =
                        IF cancel_counts[id] > cancel_interval
                        THEN 1 ELSE cancel_counts[id] + 1
      ]_vars

\* C23 witness: a partial fill reported for an order whose counter has passed
\* cancel_interval, which the next tick therefore cancels
WorkingUpdateKeepsCountersWitness ==
    /\ last.op = "order"
    /\ last.tracked
    /\ last.event.status = "PARTTRADED"
    /\ last.event.traded > 0
    /\ last.event.vt_orderid \in active_orderids
    /\ cancel_counts[last.event.vt_orderid] = cancel_interval + 1

\* C24: stop_auto_hedge changes nothing but the auto-hedge flag of its
\* portfolio: the active set, the cancel counters, the host's orders, the
\* hedge parameters and the balance prices stay as they are and no cancel
\* request is issued; and the chase engine works the orders whatever the
\* flag: a timer tick cancels exactly the orders whose counter has passed
\* cancel_interval, and a Cancelled event of a tracked order with volume left
\* resends that volume.
StopAutoHedgeChangesOnlyFlag ==
    [][/\ last'.op = "stop_auto_hedge"
          => /\ active_orderids' = active_orderids
             /\ cancel_counts' = cancel_counts
             /\ orders' = orders
             /\ next_id' = next_id
             /\ hedge_parameters' = hedge_parameters
             /\ balance_prices' = balance_prices
             /\ underlyings' = underlyings
             /\ counters' = counters
             /\ last'.cancels = {}
             /\ last'.submitted = <<>>
             /\ DOMAIN auto_hedge_flags'
                    = DOMAIN auto_hedge_flags \cup {last'.pf}
             /\ ~auto_hedge_flags'[last'.pf]
             /\ \A pf \in DOMAIN auto_hedge_flags \ {last'.pf} :
                    auto_hedge_flags'[pf] = auto_hedge_flags[pf]
       /\ last'.op = "timer"
          => last'.cancels = {id \in active_orderids :
                                  cancel_counts[id] > cancel_interval}
       /\ (/\ last'.op = "order"
           /\ last'.event.vt_orderid \in active_orderids
           /\ last'.event.status = "CANCELLED"
           /\ last'.event.volume > last'.event.traded)
          => /\ last'.submitted # <<>>
             /\ SumSeq(Volumes(last'.submitted))
                    = last'.event.volume - last'.event.traded
      ]_vars

\* C24 witness: automatic hedging stopped while hedge orders are working,
\* their counters running
StopAutoHedgeChangesOnlyFlagWitness ==
    /\ last.op = "stop_auto_hedge"
    /\ last.was = "True"
    /\ ~auto_hedge_flags[last.pf]
    /\ active_orderids # {}
    /\ \E id \in active_orderids : cancel_counts[id] > 0

====
